---------------------------- MODULE Spec2Model ----------------------------
(***************************************************************************)
(* A model of GarbageCollector (src/main.cpp): a stack-scanning            *)
(* mark-and-sweep memory manager.  The state is the block table m_allocs,  *)
(* the chunk list m_chunks and the two cached indices.                     *)
(*                                                                         *)
(* Addresses are natural numbers, nullptr is 0.  Sizes are scaled down:    *)
(* CHUNK_SIZE stands for the 1 MB of the source.  Table and chunk indices  *)
(* are 0-based as in the source; a TLA+ sequence is 1-based, so table      *)
(* entry i is m_allocs[i + 1].                                             *)
(***************************************************************************)
EXTENDS Integers, Sequences, FiniteSets, TLC

VARIABLES
    m_allocs,                        \* the block table
    m_chunks,                        \* the chunk list
    m_current_chunk_idx,
    m_next_free_allocated_block_idx,
    last,                            \* the last call: its inputs and its result
    hist                             \* fresh: only allocate has been called;
                                     \* total: the bytes asked for while fresh
                                     \* (capped above CHUNK_SIZE);
                                     \* zero_when_full: allocate(0) was called
                                     \* with total = CHUNK_SIZE

vars == <<m_allocs, m_chunks, m_current_chunk_idx,
          m_next_free_allocated_block_idx, last, hist>>

---------------------------------------------------------------------------
(* Bounds of the model. *)

\* Spec: longest block table explored, and number of words in the scanned
\* stack range
MaxBlocks == 5
StackWords == 1
\* SpecDeep: the same for a shorter table under a longer stack range
FewBlocks == 4
DeepStack == 2
\* SpecLong: the same for a short table under a long stack range, of which
\* the words that hold a block address all hold the same one
RunBlocks == 3
LongStack == 32768
\* a mark that wrapped below zero is followed this far above the lowest short
MaxWrapped == 1

\* deepest unsigned underflow of a used-byte counter explored
MaxUnderflow == 1

---------------------------------------------------------------------------
(* Program constants. *)

CHUNK_SIZE == 3
Used == 0
Unused == -1
Freed == -2
NULL == 0

\* std::size_t arithmetic is modulo SIZE_MOD (a scaled-down 2^64)
SIZE_MOD == 2^16
\* short is [-SHORT_MOD, SHORT_MOD - 1]
SHORT_MOD == 2^15

\* distance between two addresses malloc can return: room for the largest
\* chunk and the allocator's own header, so chunks never touch
SlotStride == 64

\* the sizes passed to allocate: nothing, part of a chunk, a whole chunk, more
MaxSize == CHUNK_SIZE + 1

\* the longest chunk list a table of MaxBlocks entries allows: the table
\* starts with one entry and every new chunk appends two
MaxChunks == 1 + (MaxBlocks - 1) \div 2

\* the addresses malloc can hand out for a chunk: one for each chunk that can
\* be alive at a time, so that a released address comes back
NumSlots == MaxChunks

Max(a, b) == IF a >= b THEN a ELSE b
Min(a, b) == IF a <= b THEN a ELSE b

SizeAdd(a, b) == (a + b) % SIZE_MOD
SizeSub(a, b) == (a - b + SIZE_MOD) % SIZE_MOD

\* a used-byte counter read as a signed number (to cap the exploration)
SizeSigned(a) == IF a >= SIZE_MOD \div 2 THEN a - SIZE_MOD ELSE a

\* narrowing an int to short
ToShort(v) == ((v + SHORT_MOD) % (2 * SHORT_MOD)) - SHORT_MOD
\* converting to unsigned short
ToUShort(v) == v % (2 * SHORT_MOD)

\* create_pointer_by_offset without the offset
create_pointer_by_offset_NoOffset(ptr, bytes) == ptr

\* lines 28-30
create_pointer_by_offset(ptr, bytes) == ptr + bytes

\* Chunk(ptr_, used_size_, max_size_)
Chunk(ptr_, used_size_, max_size_) ==
    [ptr |-> ptr_, used_size |-> used_size_, max_size |-> max_size_]

\* AllocatedBlock(ptr_, size_, unsigned short mark_, chunk_idx_): the mark
\* goes through unsigned short and is stored in a short
AllocatedBlock(ptr_, size_, mark_, chunk_idx_) ==
    [ptr |-> ptr_, size |-> size_, mark |-> ToShort(ToUShort(mark_)),
     chunk_idx |-> chunk_idx_]

---------------------------------------------------------------------------
(* The vector holding the block table. *)

\* v.emplace_back(x) on a vector with elements elems and room for spare more
\* before it is full (capacity() - size()).  A full vector moves its elements
\* to a new buffer and frees the old one: relocated.  How much room a vector
\* has at a given size is the library's choice (libstdc++ doubles a full
\* vector, MSVC grows it by half); the new buffer has room for as many
\* elements again.
emplace_back(elems, spare, x) ==
    [elems     |-> Append(elems, x),
     spare     |-> IF spare = 0 THEN Len(elems) ELSE spare - 1,
     relocated |-> spare = 0]

---------------------------------------------------------------------------
(* malloc *)

SlotBase(s) == (s + 1) * SlotStride

\* the regions that no unreleased chunk occupies
FreeSlots(chunks) ==
    { t \in 0 .. NumSlots - 1 :
        \A c \in 1 .. Len(chunks) : chunks[c].ptr # SlotBase(t) }

\* what malloc(bytes) can return: null, or the base of a region that no
\* unreleased chunk occupies.  free_chunk clears every address the table
\* holds into a released chunk, so the free regions differ in name only and
\* the lowest stands for all (the address of a released chunk comes back).
malloc(chunks) ==
    {NULL} \cup { SlotBase(t) : t \in
        { u \in FreeSlots(chunks) :
            \A w \in FreeSlots(chunks) : u <= w } }

\* alloc_chunk(size): the chunk, or "AllocationException" when malloc gave null
alloc_chunk(size, pointer) ==
    LET size_to_allocate == IF size < CHUNK_SIZE THEN CHUNK_SIZE ELSE size
    IN  IF pointer # NULL
        THEN [ok |-> TRUE,  chunk |-> Chunk(pointer, 0, size_to_allocate)]
        ELSE [ok |-> FALSE, chunk |-> Chunk(NULL, 0, 0)]

AddUsed(chunks, chunk_idx, size) ==
    [chunks EXCEPT ![chunk_idx + 1].used_size = SizeAdd(@, size)]

---------------------------------------------------------------------------
(* allocate: lines 132-165, the search for unused memory *)

\* the state the search works on
SearchState(allocs, spare, chunks) ==
    [allocs |-> allocs, spare |-> spare, chunks |-> chunks, pointer |-> NULL,
     relocated |-> FALSE, stale |-> << >>]

\* FastPath whose exact fit hands the cached block out without marking it Used
FastPath_LeavesUnused(st, idx, size) ==
    LET next_free_block == st.allocs[idx + 1]
        pointer   == next_free_block.ptr
        chunks1   == AddUsed(st.chunks, next_free_block.chunk_idx, size)
    IN  IF next_free_block.size > size
        THEN LET shrunk == [st.allocs EXCEPT
                               ![idx + 1].ptr  = create_pointer_by_offset(@, size),
                               ![idx + 1].size = @ - size]
                 chunk_idx == next_free_block.chunk_idx
                 v == emplace_back(shrunk, st.spare,
                         AllocatedBlock(pointer, size, 0, chunk_idx))
             IN  [st EXCEPT !.allocs = v.elems, !.spare = v.spare,
                            !.chunks = chunks1, !.pointer = pointer]
        ELSE [st EXCEPT !.chunks = chunks1, !.pointer = pointer]

\* lines 134-153: the cached next free block is Unused and big enough
FastPath(st, idx, size) ==
    LET next_free_block == st.allocs[idx + 1]
        pointer   == next_free_block.ptr
        chunks1   == AddUsed(st.chunks, next_free_block.chunk_idx, size)
    IN  IF next_free_block.size > size
        THEN LET shrunk == [st.allocs EXCEPT
                               ![idx + 1].ptr  = create_pointer_by_offset(@, size),
                               ![idx + 1].size = @ - size]
                 chunk_idx == next_free_block.chunk_idx
                 v == emplace_back(shrunk, st.spare,
                         AllocatedBlock(pointer, size, 0, chunk_idx))
             IN  [st EXCEPT !.allocs = v.elems, !.spare = v.spare,
                            !.chunks = chunks1, !.pointer = pointer]
        ELSE [st EXCEPT !.allocs = [st.allocs EXCEPT ![idx + 1].mark = 0],
                        !.chunks = chunks1, !.pointer = pointer]

\* SlowPathStep that takes the returned address after moving the block's base
SlowPathStep_LatePointer(st, i, size) ==
    LET alloc == IF st.relocated THEN st.stale[i] ELSE st.allocs[i]
    IN  IF alloc.mark = Unused /\ alloc.size >= size
        THEN LET pointer == create_pointer_by_offset(alloc.ptr, size)
                 v == emplace_back(st.allocs, st.spare,
                         AllocatedBlock(pointer, size, Used, alloc.chunk_idx))
                 gone   == st.relocated \/ v.relocated
                 stale0 == IF st.relocated THEN st.stale ELSE st.allocs
                 moved  == [ptr |-> pointer,
                            size |-> alloc.size - size,
                            mark |-> alloc.mark, chunk_idx |-> alloc.chunk_idx]
             IN  [allocs    |-> IF gone THEN v.elems
                                ELSE [v.elems EXCEPT ![i] = moved],
                  spare     |-> v.spare,
                  chunks    |-> AddUsed(st.chunks, alloc.chunk_idx, size),
                  pointer   |-> pointer,
                  relocated |-> gone,
                  stale     |-> IF gone THEN [stale0 EXCEPT ![i] = moved]
                                ELSE << >>]
        ELSE st

\* lines 156-163: one iteration of the range-for over m_allocs.  `alloc` is a
\* reference into the buffer the loop started on.  Once an emplace_back has
\* relocated the vector that buffer is freed: reads through `alloc` see what
\* the freed buffer holds (st.stale) and writes through it never reach the
\* table.
SlowPathStep(st, i, size) ==
    LET alloc == IF st.relocated THEN st.stale[i] ELSE st.allocs[i]
    IN  IF alloc.mark = Unused /\ alloc.size >= size
        THEN LET pointer == alloc.ptr
                 v == emplace_back(st.allocs, st.spare,
                         AllocatedBlock(pointer, size, Used, alloc.chunk_idx))
                 gone   == st.relocated \/ v.relocated
                 stale0 == IF st.relocated THEN st.stale ELSE st.allocs
                 moved  == [ptr |-> create_pointer_by_offset(alloc.ptr, size),
                            size |-> alloc.size - size,
                            mark |-> alloc.mark, chunk_idx |-> alloc.chunk_idx]
             IN  [allocs    |-> IF gone THEN v.elems
                                ELSE [v.elems EXCEPT ![i] = moved],
                  spare     |-> v.spare,
                  chunks    |-> AddUsed(st.chunks, alloc.chunk_idx, size),
                  pointer   |-> pointer,
                  relocated |-> gone,
                  stale     |-> IF gone THEN [stale0 EXCEPT ![i] = moved]
                                ELSE << >>]
        ELSE st

\* lines 155-164: the loop visits the entries the table had when it began
\* (begin and end are taken once, before the first append)
RECURSIVE SlowPathLoop(_, _, _, _)
SlowPathLoop(st, i, n, size) ==
    IF i > n THEN st
    ELSE SlowPathLoop(SlowPathStep(st, i, size), i + 1, n, size)

SlowPath(st, size) == SlowPathLoop(st, 1, Len(st.allocs), size)

\* lines 132-165
Search(allocs, spare, chunks, idx, size) ==
    LET st == SearchState(allocs, spare, chunks)
        next_free_block == allocs[idx + 1]
    IN  IF next_free_block.mark = Unused /\ next_free_block.size >= size
        THEN FastPath(st, idx, size)
        ELSE SlowPath(st, size)

---------------------------------------------------------------------------
(* allocate: lines 167-187, the new chunk *)

\* pointer is what malloc returned.  The result has thrown = TRUE when
\* alloc_chunk threw AllocationException: nothing after line 169 ran.
NewChunkPath(st, cur, nextfree, size, pointer) ==
    LET got == alloc_chunk(size, pointer)
    IN  IF ~got.ok
        THEN [allocs |-> st.allocs, chunks |-> st.chunks,
              cur |-> cur, nextfree |-> nextfree, pointer |-> NULL,
              thrown |-> TRUE]
        ELSE LET chunk  == [got.chunk EXCEPT !.used_size = size]
                 chunks == Append(st.chunks, chunk)
                 cur1   == cur + 1
                 v1 == emplace_back(st.allocs, st.spare,
                          AllocatedBlock(chunk.ptr, size, Used, cur1))
                 ptr == create_pointer_by_offset(chunk.ptr, size)
                 v2 == emplace_back(v1.elems, v1.spare,
                          AllocatedBlock(ptr, size, Unused, cur1))
             IN  [allocs |-> v2.elems, chunks |-> chunks,
                  cur |-> cur1, nextfree |-> Len(v2.elems) - 1,
                  pointer |-> chunk.ptr, thrown |-> FALSE]

\* lines 167-190 after the search st: the new chunk if the search found
\* nothing, with what malloc returns if it is called
Finish(st, cur, nextfree, size, pointer) ==
    IF st.pointer = NULL
    THEN NewChunkPath(st, cur, nextfree, size, pointer) @@ [mallocs |-> 1]
    ELSE [allocs |-> st.allocs, chunks |-> st.chunks,
          cur |-> cur, nextfree |-> nextfree, pointer |-> st.pointer,
          thrown |-> FALSE, mallocs |-> 0]

\* lines 128-191: allocate(size), with the room m_allocs has and with what
\* malloc returns if it is called
allocate(allocs, chunks, cur, nextfree, size, spare, pointer) ==
    Finish(Search(allocs, spare, chunks, nextfree, size),
           cur, nextfree, size, pointer)

\* the blocks the slow path takes from
Qualifying(allocs, size) ==
    { i \in DOMAIN allocs : allocs[i].mark = Unused /\ allocs[i].size >= size }

\* the room of m_allocs that makes a difference to allocate(size): the slow
\* path appends once per qualifying block, the other paths never keep a
\* reference across an append
Spares(allocs, nextfree, size) ==
    IF (nextfree + 1) \in Qualifying(allocs, size) THEN {0}
    ELSE 0 .. Cardinality(Qualifying(allocs, size))

---------------------------------------------------------------------------
(* collect *)

\* lines 217-219
ClearMarks(allocs) ==
    [i \in DOMAIN allocs |->
        [allocs[i] EXCEPT !.mark = IF @ > 0 THEN 0 ELSE @]]

\* std::find_if(begin, end, ptr == pointer): the first match, 0 for end
find_if(allocs, pointer) ==
    LET hits == { i \in DOMAIN allocs : allocs[i].ptr = pointer }
    IN  IF hits = {} THEN 0 ELSE CHOOSE i \in hits : \A k \in hits : i <= k

\* lines 280-288: one word of the stack
ScanWord(allocs, pointer) ==
    LET it == find_if(allocs, pointer)
    IN  IF it # 0
        THEN [allocs EXCEPT ![it].mark = ToShort(@ + 1)]
        ELSE allocs

\* lines 275-294: the words from current up to top, in order
RECURSIVE scan_stack(_, _)
scan_stack(allocs, stack) ==
    IF stack = << >> THEN allocs
    ELSE scan_stack(ScanWord(allocs, Head(stack)), Tail(stack))

\* realease_block that leaves the used-byte counter of the chunk alone
realease_block_KeepsCounter(allocs, chunks, i) ==
    [allocs |-> [allocs EXCEPT ![i].mark = Unused],
     chunks |-> chunks,
     asserted |-> allocs[i].ptr = NULL]

\* lines 313-319.  The assert is compiled out (NDEBUG); asserted tells whether
\* it would have failed.  A build with assertions aborts there instead.
realease_block(allocs, chunks, i) ==
    [allocs |-> [allocs EXCEPT ![i].mark = Unused],
     chunks |-> [chunks EXCEPT ![allocs[i].chunk_idx + 1].used_size =
                                   SizeSub(@, allocs[i].size)],
     asserted |-> allocs[i].ptr = NULL]

\* lines 226-238
RECURSIVE SweepLoop(_, _, _, _)
SweepLoop(allocs, chunks, i, asserted) ==
    IF i > Len(allocs)
    THEN [allocs |-> allocs, chunks |-> chunks, asserted |-> asserted]
    ELSE IF allocs[i].mark = 0
         THEN LET r == realease_block(allocs, chunks, i)
              IN  SweepLoop(r.allocs, r.chunks, i + 1, asserted \/ r.asserted)
         ELSE SweepLoop(allocs, chunks, i + 1, asserted)

\* free_chunk that forgets to clear the capacity
free_chunk_KeepsCapacity(chunk) ==
    [ptr |-> NULL, used_size |-> 0, max_size |-> chunk.max_size]

\* lines 303-311
free_chunk(chunk) == [ptr |-> NULL, used_size |-> 0, max_size |-> 0]

\* lines 241-254
RECURSIVE ReleaseLoop(_, _, _)
ReleaseLoop(allocs, chunks, i) ==
    IF i >= Len(chunks)
    THEN [allocs |-> allocs, chunks |-> chunks]
    ELSE IF chunks[i + 1].used_size = 0
         THEN ReleaseLoop(
                [k \in DOMAIN allocs |->
                    IF allocs[k].chunk_idx = i
                    THEN [allocs[k] EXCEPT !.mark = Freed, !.ptr = NULL]
                    ELSE allocs[k]],
                [chunks EXCEPT ![i + 1] = free_chunk(@)],
                i + 1)
         ELSE ReleaseLoop(allocs, chunks, i + 1)

\* lines 321-323
are_blocks_adjacent(block1, block2) ==
    create_pointer_by_offset(block1.ptr, block1.size) = block2.ptr

\* lines 329-339: the inner loop for block1 = m_allocs[i]; block1 and block2
\* are references, so each test reads what the earlier merges wrote
RECURSIVE CombineInner(_, _, _)
CombineInner(allocs, i, j) ==
    IF j > Len(allocs) THEN allocs
    ELSE IF allocs[j].mark = Unused /\ are_blocks_adjacent(allocs[i], allocs[j])
         THEN LET grown == [allocs EXCEPT ![i].size = @ + allocs[j].size]
              IN  CombineInner(
                     [grown EXCEPT ![j].mark = Freed, ![j].size = 0], i, j + 1)
         ELSE CombineInner(allocs, i, j + 1)

\* lines 326-342
RECURSIVE CombineOuter(_, _)
CombineOuter(allocs, i) ==
    IF i > Len(allocs) THEN allocs
    ELSE IF allocs[i].ptr # NULL /\ allocs[i].mark = Unused
         THEN CombineOuter(CombineInner(allocs, i, 1), i + 1)
         ELSE CombineOuter(allocs, i + 1)

combine_unused_blocks(allocs) == CombineOuter(allocs, 1)

\* the table after lines 217-221 (marks cleared, stack scanned)
Marked(allocs, stack) == scan_stack(ClearMarks(allocs), stack)

\* the table and chunks after lines 223-238
Swept(allocs, chunks, stack) ==
    SweepLoop(Marked(allocs, stack), chunks, 1, FALSE)

\* lines 206-261: collect() over the scanned words stack
collect(allocs, chunks, stack) ==
    LET s == Swept(allocs, chunks, stack)
        r == ReleaseLoop(s.allocs, s.chunks, 0)
    IN  [allocs |-> combine_unused_blocks(r.allocs), chunks |-> r.chunks,
         asserted |-> s.asserted, swept |-> s, released |-> r.allocs]

\* lines 278-291 over a range in which `count` words hold pointer and every
\* other word holds the address of no block: find_if compares addresses only,
\* so each of the count words finds the same entry, and the entry's short
\* mark is incremented and narrowed once per word, which adds count
\* modulo the width of short
ScanRun(allocs, pointer, count) ==
    LET it == find_if(allocs, pointer)
    IN  IF it # 0 /\ count > 0
        THEN [allocs EXCEPT ![it].mark = ToShort(@ + count)]
        ELSE allocs

\* lines 206-261: collect() over such a range
collect_run(allocs, chunks, pointer, count) ==
    LET s == SweepLoop(ScanRun(ClearMarks(allocs), pointer, count), chunks, 1, FALSE)
        r == ReleaseLoop(s.allocs, s.chunks, 0)
    IN  [allocs |-> combine_unused_blocks(r.allocs), chunks |-> r.chunks,
         asserted |-> s.asserted, swept |-> s, released |-> r.allocs]

---------------------------------------------------------------------------
(* The state machine *)

\* what `last` keeps of a call: the size asked for and the address returned
\* (allocate), whether AllocationException was thrown, how often malloc was
\* called, whether the assert of realease_block would have failed, and the
\* blocks that grew by absorbing a neighbour and are Unused on return
\* (collect), the Used blocks its sweep released and the words of the stack
\* range it scanned; after_merge: the call
\* is an allocate that follows such a collect and asks for exactly the size
\* of one of those blocks
Call(op, size, pointer, thrown, mallocs, asserted, merged, swept, after_merge, stack) ==
    [op |-> op, size |-> size, pointer |-> pointer, thrown |-> thrown,
     mallocs |-> mallocs, asserted |-> asserted, merged |-> merged,
     swept |-> swept, after_merge |-> after_merge, stack |-> stack]

\* BlockState as the code tests it: mark >= Used
IsUsed(b) == b.mark >= Used

\* the Used blocks of positive size of table `before` that are Unused in
\* table `after`
Let_Go(before, after) ==
    { i \in DOMAIN before :
        IsUsed(before[i]) /\ before[i].size > 0 /\ after[i].mark = Unused }

\* the blocks of table `after` that are Unused and larger than in `before`
Grown(before, after) ==
    { i \in DOMAIN before :
        after[i].mark = Unused /\ after[i].size > before[i].size }

\* lines 97-104: the state after the constructor; malloc has succeeded (which
\* of the addresses it gave only renames the others)
Init ==
    LET chunk == alloc_chunk(CHUNK_SIZE, SlotBase(0)).chunk
        v == emplace_back(<< >>, 0,
                AllocatedBlock(chunk.ptr, CHUNK_SIZE, Unused, 0))
    IN  /\ m_chunks = << chunk >>
        /\ m_allocs = v.elems
        /\ m_current_chunk_idx = 0
        /\ m_next_free_allocated_block_idx = 0
        /\ last = Call("construct", 0, NULL, FALSE, 1, FALSE, {}, {}, FALSE, << >>)
        /\ hist = [fresh |-> TRUE, total |-> 0, zero_when_full |-> FALSE]

\* a call of allocate(size) that leaves at most max_blocks table entries
AllocateWithin(max_blocks) ==
    \E size \in 0 .. MaxSize :
    \E spare \in Spares(m_allocs, m_next_free_allocated_block_idx, size) :
    \E st \in {Search(m_allocs, spare, m_chunks,
                      m_next_free_allocated_block_idx, size)} :
    \E pointer \in IF st.pointer = NULL THEN malloc(m_chunks) ELSE {NULL} :
        \E r \in {Finish(st, m_current_chunk_idx,
                         m_next_free_allocated_block_idx, size, pointer)} :
            /\ Len(r.allocs) <= max_blocks
            /\ m_allocs' = r.allocs
            /\ m_chunks' = r.chunks
            /\ m_current_chunk_idx' = r.cur
            /\ m_next_free_allocated_block_idx' = r.nextfree
            /\ last' = Call("allocate", size, r.pointer, r.thrown,
                            r.mallocs, FALSE, {}, {},
                            \E m \in last.merged : m_allocs[m].size = size,
                            << >>)
            /\ hist' = IF hist.fresh
                       THEN [fresh |-> TRUE,
                             total |-> Min(hist.total + size, CHUNK_SIZE + 1),
                             zero_when_full |-> hist.zero_when_full
                                 \/ (size = 0 /\ hist.total = CHUNK_SIZE)]
                       ELSE hist

\* a word that is the address of no block
NoBlockWord == SlotBase(NumSlots)

\* the values a word of the scanned stack range is drawn from: the address
\* held by a table entry (null included when an entry holds null), or a value
\* no entry holds, which leaves no mark whatever it is
StackValues(allocs) ==
    {NoBlockWord} \cup { allocs[i].ptr : i \in DOMAIN allocs }

\* the contents of the scanned range.  The marks a scan leaves depend on how
\* often each value occurs, not on where, so one order stands for all.
Stacks(allocs, words) ==
    { stack \in [1 .. words -> StackValues(allocs)] :
        \A k \in 1 .. words - 1 : stack[k] <= stack[k + 1] }

\* a call of collect() with some content of the `words` words of stack
\* between the frame of collect and m_top
CollectOver(words) ==
    /\ \E stack \in Stacks(m_allocs, words) :
        \E r \in {collect(m_allocs, m_chunks, stack)} :
            /\ \A c \in DOMAIN r.chunks :
                  SizeSigned(r.chunks[c].used_size) >= 0 - MaxUnderflow
            /\ m_allocs' = r.allocs
            /\ m_chunks' = r.chunks
            /\ last' = Call("collect", 0, NULL, FALSE, 0, r.asserted,
                            Grown(r.released, r.allocs),
                            Let_Go(m_allocs, r.swept.allocs), FALSE, stack)
    /\ hist' = [fresh |-> FALSE, total |-> 0, zero_when_full |-> FALSE]
    /\ UNCHANGED <<m_current_chunk_idx, m_next_free_allocated_block_idx>>

Allocate == AllocateWithin(MaxBlocks)

Collect == CollectOver(StackWords)

Next == Allocate \/ Collect

Spec == Init /\ [][Next]_vars

AllocateFew == AllocateWithin(FewBlocks)

CollectDeep == CollectOver(DeepStack)

NextDeep == AllocateFew \/ CollectDeep

SpecDeep == Init /\ [][NextDeep]_vars

\* a call of collect() with `words` words of stack between the frame of
\* collect and m_top, of which one or all hold one value and the others the
\* address of no block; last.stack keeps the value and the count
CollectRun(words) ==
    /\ \E pointer \in StackValues(m_allocs) :
       \E count \in {1, words} :
        \E r \in {collect_run(m_allocs, m_chunks, pointer, count)} :
            /\ \A c \in DOMAIN r.chunks :
                  SizeSigned(r.chunks[c].used_size) >= 0 - MaxUnderflow
            /\ \A i \in DOMAIN r.allocs :
                  r.allocs[i].mark >= Freed \/ r.allocs[i].mark <= MaxWrapped - SHORT_MOD
            /\ m_allocs' = r.allocs
            /\ m_chunks' = r.chunks
            /\ last' = Call("collect", 0, NULL, FALSE, 0, r.asserted,
                            Grown(r.released, r.allocs),
                            Let_Go(m_allocs, r.swept.allocs), FALSE,
                            [word |-> pointer, count |-> count])
    /\ hist' = [fresh |-> FALSE, total |-> 0, zero_when_full |-> FALSE]
    /\ UNCHANGED <<m_current_chunk_idx, m_next_free_allocated_block_idx>>

AllocateShort == AllocateWithin(RunBlocks)

CollectLong == CollectRun(LongStack)

NextLong == AllocateShort \/ CollectLong

SpecLong == Init /\ [][NextLong]_vars

---------------------------------------------------------------------------
(* Vocabulary of the properties *)

\* the bytes [ptr, ptr + size) of a block
Bytes(b) == b.ptr .. (b.ptr + b.size - 1)

\* the bytes [ptr, ptr + max_size) of a chunk
ChunkBytes(c) == c.ptr .. (c.ptr + c.max_size - 1)

OnStack(stack, pointer) == \E k \in DOMAIN stack : stack[k] = pointer

\* the step is a call of collect()
CollectCall == last'.op = "collect"

\* the step is the call of collect() that scanned `stack` and computed r
CollectStep(r) ==
    /\ CollectCall
    /\ m_allocs' = r.allocs
    /\ m_chunks' = r.chunks

\* the step is a call of allocate that returned an address
AllocateReturned == last'.op = "allocate" /\ ~last'.thrown

---------------------------------------------------------------------------
(* C1 *)

\* C1: a block that is Used when collect() is called and whose base address
\* equals at least one word of the scanned stack range is still Used, with
\* mark > 0 and the same base address and size, when collect() returns.
C1_LivenessPreservation ==
    [][ CollectCall =>
        \A stack \in {last'.stack} :
        \A r \in {collect(m_allocs, m_chunks, stack)} :
            CollectStep(r) =>
                \A i \in DOMAIN m_allocs :
                    (IsUsed(m_allocs[i]) /\ OnStack(stack, m_allocs[i].ptr))
                    => /\ m_allocs'[i].mark > 0
                       /\ m_allocs'[i].ptr = m_allocs[i].ptr
                       /\ m_allocs'[i].size = m_allocs[i].size ]_vars

---------------------------------------------------------------------------
(* C2 *)

\* the blocks the sweep of collect() over `stack` releases
SweptBlocks(allocs, stack) ==
    { i \in DOMAIN allocs : Marked(allocs, stack)[i].mark = 0 }

\* B = m_allocs[i] is the only block the sweep releases from its chunk
OnlySwept(allocs, stack, i) ==
    { k \in SweptBlocks(allocs, stack) :
        allocs[k].chunk_idx = allocs[i].chunk_idx } = {i}

---------------------------------------------------------------------------
(* C3 *)

\* address p of a request of `size` bytes lies in the chunk's byte range
InChunk(c, p, size) ==
    /\ c.ptr <= p
    /\ p < c.ptr + c.max_size
    /\ p + size <= c.ptr + c.max_size

NoUsedOverlap(allocs) ==
    \A i, j \in DOMAIN allocs :
        (i # j /\ IsUsed(allocs[i]) /\ IsUsed(allocs[j]))
        => Bytes(allocs[i]) \cap Bytes(allocs[j]) = {}

\* what C3 promises of a state
C3_Promise ==
    /\ Len(m_chunks) = 1
    /\ (last.op = "allocate" /\ ~last.thrown)
         => InChunk(m_chunks[1], last.pointer, last.size)
    /\ NoUsedOverlap(m_allocs)

\* C3 as claimed: while only allocate has been called on a fresh manager and
\* the requested sizes sum to at most the capacity of one chunk, every
\* returned address lies in the initial chunk, no chunk has been acquired and
\* no two Used blocks overlap.
C3_FitsOneChunk ==
    (hist.fresh /\ hist.total <= CHUNK_SIZE) => C3_Promise

\* C3 amended: the same, for sequences in which no request of zero bytes is
\* made once the requested sizes sum to exactly the capacity of the chunk.
C3_FitsOneChunkNoZeroWhenFull ==
    (hist.fresh /\ hist.total <= CHUNK_SIZE /\ ~hist.zero_when_full)
    => C3_Promise

\* several allocations have filled the first chunk exactly
C3_Witness ==
    /\ hist.fresh
    /\ hist.total = CHUNK_SIZE
    /\ ~hist.zero_when_full
    /\ last.op = "allocate"
    /\ Len(m_allocs) >= 3
    /\ \A i \in DOMAIN m_allocs : IsUsed(m_allocs[i]) /\ m_allocs[i].size > 0

---------------------------------------------------------------------------
(* C4 *)

\* the blocks of chunk index c that are Used or Unused
LiveBlocks(allocs, c) ==
    { i \in DOMAIN allocs : allocs[i].chunk_idx = c /\ allocs[i].mark # Freed }

\* C4: for every unreleased chunk, the Used and Unused blocks that belong to
\* it have pairwise disjoint byte ranges whose union is exactly the chunk's
\* byte range.
C4_BlockPartition ==
    \A c \in DOMAIN m_chunks :
        m_chunks[c].ptr # NULL =>
            /\ \A i, j \in LiveBlocks(m_allocs, c - 1) :
                 i # j => Bytes(m_allocs[i]) \cap Bytes(m_allocs[j]) = {}
            /\ UNION { Bytes(m_allocs[i]) : i \in LiveBlocks(m_allocs, c - 1) }
                 = ChunkBytes(m_chunks[c])

---------------------------------------------------------------------------
(* C5 *)

\* C5: when allocate(size) finds no Unused block of size >= size (and malloc
\* succeeds), it acquires one chunk of capacity max(size, CHUNK_SIZE) with
\* used-byte counter size, appends exactly a Used block [base, base + size)
\* and an Unused block [base + size, base + capacity) for it, and sets the
\* next-free-block cache index to that Unused block.
C5_NewChunkPath ==
    [][ ( /\ AllocateReturned
          /\ ~ \E i \in DOMAIN m_allocs :
                 m_allocs[i].mark = Unused /\ m_allocs[i].size >= last'.size )
        => LET size  == last'.size
               n     == Len(m_allocs)
               chunk == m_chunks'[Len(m_chunks')]
           IN  /\ Len(m_chunks') = Len(m_chunks) + 1
               /\ chunk.ptr # NULL
               /\ chunk.max_size = Max(size, CHUNK_SIZE)
               /\ chunk.used_size = size
               /\ Len(m_allocs') = n + 2
               /\ m_allocs'[n + 1] =
                    [ptr |-> chunk.ptr, size |-> size, mark |-> Used,
                     chunk_idx |-> Len(m_chunks') - 1]
               /\ m_allocs'[n + 2] =
                    [ptr |-> chunk.ptr + size,
                     size |-> chunk.max_size - size, mark |-> Unused,
                     chunk_idx |-> Len(m_chunks') - 1]
               /\ m_next_free_allocated_block_idx' = n + 1 ]_vars

---------------------------------------------------------------------------
(* C6 *)

Released_Chunk == [ptr |-> NULL, used_size |-> 0, max_size |-> 0]

\* C6: when collect() returns, every chunk whose used-byte counter is 0 after
\* the sweep is released (base cleared, capacity and counter 0) and every
\* block of that chunk is Freed with a null address; a chunk whose counter is
\* not 0 after the sweep is left as the sweep left it.
C6_ChunkRelease ==
    [][ CollectCall =>
        \A stack \in {last'.stack} :
        \A r \in {collect(m_allocs, m_chunks, stack)} :
            CollectStep(r) =>
                \A sw \in {r.swept.chunks} :
                \A c \in DOMAIN m_chunks :
                    /\ sw[c].used_size = 0 =>
                         /\ m_chunks'[c] = Released_Chunk
                         /\ \A i \in DOMAIN m_allocs' :
                              m_allocs'[i].chunk_idx = c - 1 =>
                                /\ m_allocs'[i].mark = Freed
                                /\ m_allocs'[i].ptr = NULL
                    /\ sw[c].used_size # 0 => m_chunks'[c] = sw[c] ]_vars

\* a collect() has returned whose sweep released a Used block of a chunk that
\* the same call released, next to a chunk that is kept
C6_Witness ==
    /\ last.op = "collect"
    /\ \E i \in last.swept :
        /\ m_chunks[m_allocs[i].chunk_idx + 1] = Released_Chunk
        /\ m_allocs[i].mark = Freed
        /\ m_allocs[i].ptr = NULL
    /\ \E c \in DOMAIN m_chunks :
        m_chunks[c].ptr # NULL /\ m_chunks[c].used_size # 0

---------------------------------------------------------------------------
(* C7 *)

Touch(b1, b2) == are_blocks_adjacent(b1, b2) \/ are_blocks_adjacent(b2, b1)

\* C7: if after the sweep and chunk-release phases of a collect() two Unused
\* blocks b1 (base P, size S1) and b2 (base P + S1, size S2) exist and no
\* other Unused block is adjacent to either, then on return there is an
\* Unused block at base P with size S1 + S2 and b2 is Freed with size 0.
C7_Coalescing ==
    [][ CollectCall =>
        \A stack \in {last'.stack} :
        \A r \in {collect(m_allocs, m_chunks, stack)} :
            CollectStep(r) =>
                \A b1, b2 \in DOMAIN r.released :
                    ( /\ b1 # b2
                      /\ r.released[b1].mark = Unused
                      /\ r.released[b2].mark = Unused
                      /\ are_blocks_adjacent(r.released[b1], r.released[b2])
                      /\ \A k \in DOMAIN r.released \ {b1, b2} :
                           r.released[k].mark = Unused =>
                             /\ ~Touch(r.released[k], r.released[b1])
                             /\ ~Touch(r.released[k], r.released[b2]) )
                    => /\ \E m \in DOMAIN m_allocs' :
                            /\ m_allocs'[m].mark = Unused
                            /\ m_allocs'[m].ptr = r.released[b1].ptr
                            /\ m_allocs'[m].size =
                                 r.released[b1].size + r.released[b2].size
                       /\ m_allocs'[b2].mark = Freed
                       /\ m_allocs'[b2].size = 0 ]_vars

---------------------------------------------------------------------------
(* C8 *)

\* the Unused blocks big enough for a request of `size`
BigEnough(allocs, size) ==
    { i \in DOMAIN allocs : allocs[i].mark = Unused /\ allocs[i].size >= size }

\* what C8 promises of an allocate(size of M) that follows the collect()
\* which merged M = m_allocs[m]: it returns M's base, acquires no chunk and
\* changes no block but M
C8_Promise(m) ==
    /\ last'.pointer = m_allocs[m].ptr
    /\ last'.mallocs = 0
    /\ Len(m_chunks') = Len(m_chunks)
    /\ \A k \in DOMAIN m_allocs : k # m => m_allocs'[k] = m_allocs[k]

---------------------------------------------------------------------------
(* C9 *)

\* the chunk has `size` contiguous bytes that lie outside every Used block
HasFreeRun(chunk, allocs, size) ==
    \E start \in chunk.ptr .. (chunk.ptr + chunk.max_size - size) :
        \A a \in start .. (start + size - 1) :
            \A i \in DOMAIN allocs :
                IsUsed(allocs[i]) => a \notin Bytes(allocs[i])

\* C9: allocate(size), for a size of at least one byte, acquires a new chunk
\* only when no unreleased chunk contains size contiguous bytes outside every
\* Used block, and then it acquires exactly one.
C9_Exhaustion ==
    [][ ( /\ AllocateReturned
          /\ last'.size >= 1
          /\ Len(m_chunks') > Len(m_chunks) )
        => /\ Len(m_chunks') = Len(m_chunks) + 1
           /\ ~ \E c \in DOMAIN m_chunks :
                  /\ m_chunks[c].ptr # NULL
                  /\ HasFreeRun(m_chunks[c], m_allocs, last'.size) ]_vars

---------------------------------------------------------------------------
(* C10 *)

\* C10: when the malloc of allocate's new-chunk path returns null, allocate
\* ends with AllocationException after exactly one call of malloc, and the
\* block table, the chunk list, the current chunk index and the
\* next-free-block cache index are as before the call.
C10_AllocationFailure ==
    [][ (last'.op = "allocate" /\ last'.thrown)
        => /\ last'.mallocs = 1
           /\ m_allocs' = m_allocs
           /\ m_chunks' = m_chunks
           /\ m_current_chunk_idx' = m_current_chunk_idx
           /\ m_next_free_allocated_block_idx' =
                m_next_free_allocated_block_idx ]_vars

(***************************************************************************)
(* C11                                                                     *)
(***************************************************************************)

\* the table holds a Used block (mark 0) at pointer of exactly size bytes
UsedBlockAt(allocs, pointer, size) ==
    \E i \in DOMAIN allocs :
        /\ allocs[i].ptr = pointer
        /\ allocs[i].mark = Used
        /\ allocs[i].size = size

\* C11: an allocate(size) that does not end with AllocationFailure returns
\* a non-null address, and on return that address is the base of a Used
\* block (mark 0) whose size is exactly size.
C11_ReturnsUsedBlock ==
    (last.op = "allocate" /\ ~last.thrown) =>
        /\ last.pointer # NULL
        /\ UsedBlockAt(m_allocs, last.pointer, last.size)

\* an allocate of a positive size returned without acquiring memory while
\* the collector holds two chunks; only Used entries have the returned address
C11_Witness ==
    /\ last.op = "allocate" /\ ~last.thrown /\ last.size > 0
    /\ last.pointer # NULL
    /\ UsedBlockAt(m_allocs, last.pointer, last.size)
    /\ Len(m_chunks) = 2
    /\ last.mallocs = 0
    /\ \A i \in DOMAIN m_allocs : m_allocs[i].ptr = last.pointer => m_allocs[i].mark = Used

(***************************************************************************)
(* C12                                                                     *)
(***************************************************************************)

\* C12: the collector never fails: whatever the scanned words are, null
\* words and bases of Unused or Freed blocks included, the assertion in
\* realease_block holds for every block the sweep hands to it, that is,
\* every block with mark 0 at the sweep has a non-null address.
C12_CollectNeverFails ==
    [][ CollectCall =>
        \A stack \in {last'.stack} :
        \A r \in {collect(m_allocs, m_chunks, stack)} :
            CollectStep(r) =>
                /\ ~r.asserted
                /\ \A i \in DOMAIN m_allocs :
                       Marked(m_allocs, stack)[i].mark = Used =>
                           m_allocs[i].ptr # NULL ]_vars

(***************************************************************************)
(* C13                                                                     *)
(***************************************************************************)

\* sum of the sizes of the blocks of allocs[1 .. n] that are Used or marked
\* (mark >= 0) and carry the chunk index c
RECURSIVE SumUsed(_, _, _)
SumUsed(allocs, c, n) ==
    IF n = 0 THEN 0
    ELSE SumUsed(allocs, c, n - 1)
            + (IF IsUsed(allocs[n]) /\ allocs[n].chunk_idx = c THEN allocs[n].size ELSE 0)

\* C13: at every quiescent point each chunk's counter equals the sum of the
\* sizes of the blocks with mark >= 0 whose owning-chunk index is that
\* chunk (which also says that no subtraction took it below zero).
C13_CounterInvariant ==
    \A c \in DOMAIN m_chunks :
        m_chunks[c].used_size = SumUsed(m_allocs, c - 1, Len(m_allocs))

(***************************************************************************)
(* C14                                                                     *)
(***************************************************************************)

\* the bytes [address, address + size) of the last call's result
Returned == last.pointer .. (last.pointer + last.size - 1)

\* C14: the range [address, address + size) that allocate returns lies
\* wholly inside one chunk that is not released at that moment, and shares
\* no byte with any other block that is Used at that moment, whatever
\* chunk that block belongs to.
C14_MemorySafety ==
    (last.op = "allocate" /\ ~last.thrown) =>
        /\ \E c \in DOMAIN m_chunks :
               /\ m_chunks[c].ptr # NULL
               /\ Returned \subseteq ChunkBytes(m_chunks[c])
        /\ \E b \in DOMAIN m_allocs :
               /\ m_allocs[b].ptr = last.pointer
               /\ m_allocs[b].size = last.size
               /\ m_allocs[b].mark = Used
               /\ \A k \in DOMAIN m_allocs \ {b} :
                      IsUsed(m_allocs[k]) => Bytes(m_allocs[k]) \cap Returned = {}

(***************************************************************************)
(* C15                                                                     *)
(***************************************************************************)

\* the cached next free block cannot serve size: allocate searches the table
CacheMiss(allocs, nextfree, size) == (nextfree + 1) \notin Qualifying(allocs, size)

\* the first Unused block in table order with room for size
FirstFit(allocs, size) ==
    CHOOSE i \in Qualifying(allocs, size) : \A j \in Qualifying(allocs, size) : i <= j

UsedBlocks(allocs) == { i \in DOMAIN allocs : IsUsed(allocs[i]) }

\* sum of the counters of chunks[1 .. n]
RECURSIVE SumCounters(_, _)
SumCounters(chunks, n) ==
    IF n = 0 THEN 0 ELSE SumCounters(chunks, n - 1) + chunks[n].used_size

\* C15: on a cache miss allocate takes from the first Unused block in table
\* order that has room and from no other; an allocate that returns creates
\* exactly one Used block and raises the sum of all chunks' counters by
\* exactly size, however many Unused blocks have room.
C15_FirstFitSingle ==
    [][ (AllocateReturned
            /\ CacheMiss(m_allocs, m_next_free_allocated_block_idx, last'.size)
            /\ Qualifying(m_allocs, last'.size) # {}) =>
        LET size  == last'.size
            first == FirstFit(m_allocs, size)
        IN  /\ last'.pointer = m_allocs[first].ptr
            /\ \A i \in Qualifying(m_allocs, size) \ {first} : m_allocs'[i] = m_allocs[i]
            /\ Cardinality(UsedBlocks(m_allocs')) = Cardinality(UsedBlocks(m_allocs)) + 1
            /\ SumCounters(m_chunks', Len(m_chunks')) % SIZE_MOD
                 = (SumCounters(m_chunks, Len(m_chunks)) + size) % SIZE_MOD ]_vars

(***************************************************************************)
(* C16                                                                     *)
(***************************************************************************)

\* C16: a block that is Unused or Freed when collect() is called has the
\* same sentinel mark after the reset and the scan, whatever the scanned
\* words are: it is not counted as survived (mark > 0), does not become
\* Used (mark 0) and so is not handed to the sweep's release step.
C16_ScanLeavesNonUsed ==
    [][ CollectCall =>
        \A stack \in {last'.stack} :
        \A marked \in {Marked(m_allocs, stack)} :
        \A i \in DOMAIN m_allocs :
            m_allocs[i].mark \in {Unused, Freed} =>
                marked[i].mark = m_allocs[i].mark ]_vars

(***************************************************************************)
(* C17                                                                     *)
(***************************************************************************)

\* C17: when collect() returns, the table holds no two distinct Unused
\* blocks of non-zero size of which one ends where the other begins,
\* whatever the order of the blocks in the table is.
C17_CoalescingFixedPoint ==
    last.op = "collect" =>
        \A i, j \in DOMAIN m_allocs :
            (/\ i # j
             /\ m_allocs[i].mark = Unused /\ m_allocs[i].size > 0
             /\ m_allocs[j].mark = Unused /\ m_allocs[j].size > 0)
            => ~are_blocks_adjacent(m_allocs[i], m_allocs[j])

(***************************************************************************)
(* C18                                                                     *)
(***************************************************************************)

\* C18: when the cached next free block is Unused and has size >= size,
\* allocate returns that block's base and adds size to its chunk's counter;
\* on an exact fit the cached block becomes Used and nothing is appended,
\* otherwise it stays Unused with its base advanced and its size reduced by
\* size and one Used block [old base, old base + size) with the same chunk
\* index is appended; every other block, every other chunk and the cache
\* index are unchanged.
C18_FastPathFrame ==
    [][ (last'.op = "allocate"
            /\ ~CacheMiss(m_allocs, m_next_free_allocated_block_idx, last'.size)) =>
        LET size   == last'.size
            idx    == m_next_free_allocated_block_idx
            cached == m_allocs[idx + 1]
        IN  /\ ~last'.thrown
            /\ last'.pointer = cached.ptr
            /\ m_chunks' = [m_chunks EXCEPT
                               ![cached.chunk_idx + 1].used_size = SizeAdd(@, size)]
            /\ m_allocs' =
                 IF cached.size = size
                 THEN [m_allocs EXCEPT ![idx + 1].mark = Used]
                 ELSE Append([m_allocs EXCEPT ![idx + 1].ptr  = @ + size,
                                              ![idx + 1].size = @ - size],
                             [ptr |-> cached.ptr, size |-> size, mark |-> Used,
                              chunk_idx |-> cached.chunk_idx])
            /\ m_next_free_allocated_block_idx' = idx
            /\ m_current_chunk_idx' = m_current_chunk_idx ]_vars

(***************************************************************************)
(* C19                                                                     *)
(***************************************************************************)

\* the chunk at index c (counted from 0) has been released
IsReleased(chunks, c) == chunks[c + 1].ptr = NULL

\* C19: over every call the chunk list only grows; the current chunk index
\* is the number of chunks minus one; every block's owning-chunk index is
\* a valid index and is the one the block was created with; and no block
\* created by the call carries the index of a chunk that was released
\* before the call.
C19_ChunkIndexStability ==
    [][ /\ Len(m_chunks') >= Len(m_chunks)
        /\ m_current_chunk_idx' = Len(m_chunks') - 1
        /\ Len(m_allocs') >= Len(m_allocs)
        /\ \A i \in DOMAIN m_allocs' :
               /\ (m_allocs'[i].chunk_idx + 1) \in DOMAIN m_chunks'
               /\ i \in DOMAIN m_allocs =>
                      m_allocs'[i].chunk_idx = m_allocs[i].chunk_idx
               /\ (i \notin DOMAIN m_allocs
                     /\ (m_allocs'[i].chunk_idx + 1) \in DOMAIN m_chunks) =>
                      ~IsReleased(m_chunks, m_allocs'[i].chunk_idx) ]_vars

(***************************************************************************)
(* C20                                                                     *)
(***************************************************************************)

\* C20: if N >= 1 words of the scanned range, N up to the number of words
\* in the range, equal the base address of a Used block (here: the only
\* table entry with that address), the block's mark after the scan is
\* positive: counting the matching words in the short mark never wraps to
\* a negative value.
C20_MarkRange ==
    [][ CollectCall =>
        \A run \in {last'.stack} :
        \A marked \in {ScanRun(ClearMarks(m_allocs), run.word, run.count)} :
        \A i \in DOMAIN m_allocs :
            (/\ IsUsed(m_allocs[i])
             /\ m_allocs[i].ptr = run.word
             /\ run.count >= 1
             /\ \A k \in DOMAIN m_allocs \ {i} : m_allocs[k].ptr # run.word)
            => marked[i].mark > 0 ]_vars

====
